---------------------------- MODULE Spec2Model ----------------------------
(***************************************************************************)
(* State-machine model of HeadsetControl_QtTray.py: the Headset state      *)
(* object (capabilities, connected, charge), its run_command gate and      *)
(* response parsing, the tray menu built by Tray.set_menu, the icon        *)
(* selected by Application.create_icon, the start-up sequence of           *)
(* Application.__init__ and the event-loop callbacks (timer tick and menu  *)
(* clicks).                                                                *)
(*                                                                         *)
(* Python strings are sequences of one-character strings; the standard     *)
(* output of the external binary is a sequence of byte values.             *)
(***************************************************************************)
EXTENDS Integers, Sequences, FiniteSets, TLC

\* ------------------------------------------------------------------ bounds

\* Longest capability string the external binary reports in the model.
MaxCapLen == 3

\* Largest battery percentage the external binary reports in the model
\* (beyond the documented 0..100 range).
MaxReported == 150

\* ----------------------------------------------------------------- strings

\* Python's None where a str is expected; no string of characters equals it.
None == << "<None>" >>

Digits == <<"0", "1", "2", "3", "4", "5", "6", "7", "8", "9">>

DigitSet == {Digits[i] : i \in 1..10}

Whitespace == {" ", "\n", "\t"}

DigitVal(c) == (CHOOSE i \in 1..10 : Digits[i] = c) - 1

\* bytes.decode("UTF-8") on the bytes the model uses: ASCII bytes map to their
\* character, a lone byte >= 128 is not valid UTF-8 (UnicodeDecodeError).
Chr(b) ==
    CASE b = 9 -> "\t"
      [] b = 10 -> "\n"
      [] b = 32 -> " "
      [] b = 37 -> "%"
      [] b = 43 -> "+"
      [] b = 45 -> "-"
      [] b \in 48..57 -> Digits[b - 47]
      [] b = 98 -> "b"
      [] b = 108 -> "l"
      [] b = 115 -> "s"
      [] b = 120 -> "x"
      [] OTHER -> "?"

Decodable(bytes) == \A i \in 1..Len(bytes) : bytes[i] < 128

Decode(bytes) == [i \in 1..Len(bytes) |-> Chr(bytes[i])]

\* What the external binary's printf does: the bytes of an ASCII text.
Ord(c) ==
    CASE c = "\t" -> 9
      [] c = "\n" -> 10
      [] c = " " -> 32
      [] c = "%" -> 37
      [] c = "+" -> 43
      [] c = "-" -> 45
      [] c \in DigitSet -> 48 + DigitVal(c)
      [] c = "b" -> 98
      [] c = "l" -> 108
      [] c = "s" -> 115
      [] c = "x" -> 120
      [] OTHER -> 63

Encode(s) == [i \in 1..Len(s) |-> Ord(s[i])]

\* str.replace(old, "") for a one-character old.
Replace(s, old) == SelectSeq(s, LAMBDA c : c # old)

\* Python's "needle in haystack" on strings: substring containment.
Contains(haystack, needle) ==
    \E i \in 0..(Len(haystack) - Len(needle)) :
        \A j \in 1..Len(needle) : haystack[i + j] = needle[j]

RECURSIVE LStrip(_)
LStrip(s) == IF s # <<>> /\ Head(s) \in Whitespace THEN LStrip(Tail(s)) ELSE s

RECURSIVE RStrip(_)
RStrip(s) ==
    IF s # <<>> /\ s[Len(s)] \in Whitespace
    THEN RStrip(SubSeq(s, 1, Len(s) - 1))
    ELSE s

RECURSIVE DigitsValue(_)
DigitsValue(ds) ==
    IF ds = <<>> THEN 0
    ELSE 10 * DigitsValue(SubSeq(ds, 1, Len(ds) - 1)) + DigitVal(ds[Len(ds)])

\* Python's int(str): surrounding whitespace is ignored, one optional sign,
\* then one or more decimal digits; anything else raises ValueError.
PyInt(s) ==
    LET t == RStrip(LStrip(s))
        signed == t # <<>> /\ Head(t) \in {"+", "-"}
        ds == IF signed THEN Tail(t) ELSE t
        ok == ds # <<>> /\ \A i \in 1..Len(ds) : ds[i] \in DigitSet
    IN  [ok |-> ok,
         val |-> IF ~ok THEN 0
                 ELSE IF signed /\ Head(t) = "-" THEN 0 - DigitsValue(ds)
                 ELSE DigitsValue(ds)]

RECURSIVE NatToStr(_)
NatToStr(n) ==
    IF n < 10 THEN <<Digits[n + 1]>>
    ELSE NatToStr(n \div 10) \o <<Digits[(n % 10) + 1]>>

\* Python's f"{n}" for an int.
IntToStr(n) == IF n < 0 THEN <<"-">> \o NatToStr(0 - n) ELSE NatToStr(n)

\* ----------------------------------------------------------------- Headset

\* The argument vectors the program passes to run_command.
CapabilitiesArgs ==
    << <<"-", "-", "c", "a", "p", "a", "b", "i", "l", "i", "t", "i", "e", "s">>,
       <<"-", "c">> >>

BatteryArgs == << <<"-", "b">>, <<"-", "c">> >>

LightArgs(v) == << <<"-", "l">>, v, <<"-", "c">> >>

SidetoneArgs(v) == << <<"-", "s">>, v, <<"-", "c">> >>

\* Headset.__init__, the three attribute assignments.
NewHeadset == [capabilities |-> None, connected |-> FALSE, charge |-> 0]

\* The gate without its test of known capabilities: only a command other than
\* the capability query issued before the capabilities are known is rejected.
GateRejectsUnsetOnly(capabilities, arg0) ==
    capabilities = None /\ arg0 # CapabilitiesArgs[1]

\* The gate without its test of unset capabilities: only a command whose
\* letter is missing from known capabilities is rejected.
GateRejectsKnownOnly(capabilities, arg0) ==
    capabilities # None /\ ~Contains(capabilities, Replace(arg0, "-"))

\* The capability gate of run_command: TRUE when the call logs a warning and
\* returns without invoking anything.
GateRejects(capabilities, arg0) ==
    \/ capabilities = None /\ arg0 # CapabilitiesArgs[1]
    \/ capabilities # None /\ ~Contains(capabilities, Replace(arg0, "-"))

\* An outcome of subprocess.run: it raises (the binary cannot be launched), or
\* the process ends with a return code and its captured standard output.
NoResult == [kind |-> "none", returncode |-> 0, stdout |-> <<>>]

LaunchError == [kind |-> "raise", returncode |-> 0, stdout |-> <<>>]

Exited(rc, bytes) == [kind |-> "exit", returncode |-> rc, stdout |-> bytes]

\* The battery branch with the parsed percentage held within 0..100.
ParseBatteryClamped(h, output) ==
    IF output = <<"-", "2">> THEN [h EXCEPT !.connected = FALSE]
    ELSE IF output = <<"-", "1">>
    THEN [h EXCEPT !.charge = 0 - 1, !.connected = TRUE]
    ELSE [h EXCEPT !.charge = IF PyInt(output).val > 100 THEN 100
                              ELSE IF PyInt(output).val < 0 THEN 0
                              ELSE PyInt(output).val,
                   !.connected = TRUE]

\* The battery branch with the "-2" answer stored in charge as well.
ParseBatteryStoresSentinel(h, output) ==
    IF output = <<"-", "2">>
    THEN [h EXCEPT !.charge = 0 - 2, !.connected = FALSE]
    ELSE IF output = <<"-", "1">>
    THEN [h EXCEPT !.charge = 0 - 1, !.connected = TRUE]
    ELSE [h EXCEPT !.charge = PyInt(output).val, !.connected = TRUE]

\* The battery branch of run_command on the decoded output.
ParseBattery(h, output) ==
    IF output = <<"-", "2">> THEN [h EXCEPT !.connected = FALSE]
    ELSE IF output = <<"-", "1">>
    THEN [h EXCEPT !.charge = 0 - 1, !.connected = TRUE]
    ELSE [h EXCEPT !.charge = PyInt(output).val, !.connected = TRUE]

\* Whether the parsing of a zero-exit response raises: the decode of the
\* output (battery and capability queries) or int() of a battery output.
ParseRaises(arg0, bytes) ==
    \/ arg0 \in {BatteryArgs[1], CapabilitiesArgs[1]} /\ ~Decodable(bytes)
    \/ /\ arg0 = BatteryArgs[1]
       /\ Decodable(bytes)
       /\ Decode(bytes) \notin {<<"-", "2">>, <<"-", "1">>}
       /\ ~PyInt(Decode(bytes)).ok

\* run_command without the test of the return code: the output is parsed
\* whatever the exit code.
run_command_ignoring_exit_code(h, args, res) ==
    LET arg0 == args[1]
        Rejected == [h |-> h, invoked |-> FALSE, raised |-> FALSE,
                     args |-> args, res |-> NoResult]
        Raised == [h |-> h, invoked |-> TRUE, raised |-> TRUE,
                   args |-> args, res |-> res]
        Returned(h2) == [h |-> h2, invoked |-> TRUE, raised |-> FALSE,
                         args |-> args, res |-> res]
    IN  IF GateRejects(h.capabilities, arg0) THEN Rejected
        ELSE IF res.kind = "raise" THEN Raised
        ELSE IF ParseRaises(arg0, res.stdout) THEN Raised
        ELSE IF arg0 = BatteryArgs[1]
        THEN Returned(ParseBattery(h, Decode(res.stdout)))
        ELSE IF arg0 = CapabilitiesArgs[1]
        THEN Returned([h EXCEPT !.capabilities = Decode(res.stdout)])
        ELSE Returned(h)

\* Headset.run_command on headset state h with the outcome res of the
\* subprocess (read only when the gate lets the call through).  The result
\* holds the headset state the call leaves (h), whether the binary was invoked
\* and whether an exception left the method.  The isinstance check of lines
\* 279-285 never returns for a list argument, and every caller passes a list.
run_command(h, args, res) ==
    LET arg0 == args[1]
        Rejected == [h |-> h, invoked |-> FALSE, raised |-> FALSE,
                     args |-> args, res |-> NoResult]
        Raised == [h |-> h, invoked |-> TRUE, raised |-> TRUE,
                   args |-> args, res |-> res]
        Returned(h2) == [h |-> h2, invoked |-> TRUE, raised |-> FALSE,
                         args |-> args, res |-> res]
    IN  IF GateRejects(h.capabilities, arg0) THEN Rejected
        ELSE IF res.kind = "raise" THEN Raised
        ELSE IF res.returncode # 0
        THEN Returned([h EXCEPT !.connected = FALSE])
        ELSE IF ParseRaises(arg0, res.stdout) THEN Raised
        ELSE IF arg0 = BatteryArgs[1]
        THEN Returned(ParseBattery(h, Decode(res.stdout)))
        ELSE IF arg0 = CapabilitiesArgs[1]
        THEN Returned([h EXCEPT !.capabilities = Decode(res.stdout)])
        ELSE Returned(h)

Disconnected == <<"D", "i", "s", "c", "o", "n", "n", "e", "c", "t", "e", "d">>

Charging == <<"C", "h", "a", "r", "g", "i", "n", "g">>

\* Headset.charge_status.
charge_status(h) ==
    IF h.charge = 0 - 2 THEN Disconnected
    ELSE IF h.charge = 0 - 1 THEN Charging
    ELSE IntToStr(h.charge) \o <<"%">>

\* ------------------------------------------------------------------- icon

\* The three glyphs of the icon font, by code point.
GlyphDisconnected == "U+F7CF"

GlyphPlug == "U+F7CE"

GlyphBattery == "U+F7CD"

NoIcon == [glyph |-> "none", font_size |-> 0, pos |-> <<0, 0>>,
           color |-> <<0, 0, 0, 0>>]

\* create_icon with the band edges on the other side (>= for >).
create_icon_inclusive(h) ==
    IF ~h.connected
    THEN [glyph |-> GlyphDisconnected, font_size |-> 60, pos |-> <<9, 0 - 9>>,
          color |-> <<255, 0, 0, 255>>]
    ELSE IF h.charge = 0 - 1
    THEN [glyph |-> GlyphPlug, font_size |-> 70, pos |-> <<5, 0 - 15>>,
          color |-> <<0, 255, 150, 255>>]
    ELSE [glyph |-> GlyphBattery, font_size |-> 60, pos |-> <<9, 0 - 9>>,
          color |-> IF h.charge >= 80 THEN <<0, 255, 0, 255>>
                    ELSE IF h.charge >= 40 THEN <<234, 255, 0, 255>>
                    ELSE IF h.charge >= 20 THEN <<255, 90, 0, 255>>
                    ELSE <<255, 0, 0, 255>>]

\* Application.create_icon: the glyph, font size, position and colour drawn
\* into the bitmap.  Writing the bitmap to image_path and reading it back
\* keeps it as drawn; file-system failures are outside the model.
create_icon(h) ==
    IF ~h.connected
    THEN [glyph |-> GlyphDisconnected, font_size |-> 60, pos |-> <<9, 0 - 9>>,
          color |-> <<255, 0, 0, 255>>]
    ELSE IF h.charge = 0 - 1
    THEN [glyph |-> GlyphPlug, font_size |-> 70, pos |-> <<5, 0 - 15>>,
          color |-> <<0, 255, 150, 255>>]
    ELSE [glyph |-> GlyphBattery, font_size |-> 60, pos |-> <<9, 0 - 9>>,
          color |-> IF h.charge > 80 THEN <<0, 255, 0, 255>>
                    ELSE IF h.charge > 40 THEN <<234, 255, 0, 255>>
                    ELSE IF h.charge > 20 THEN <<255, 90, 0, 255>>
                    ELSE <<255, 0, 0, 255>>]

\* ------------------------------------------------------------------- menu

\* The triggered signals the program connects, by the QAction's attribute.
Signals ==
    {"quit", "light_on", "light_off", "refresh", "sidetone_off",
     "sidetone_low", "sidetone_med", "sidetone_high", "sidetone_max"}

\* QWidget.addAction: an action the widget already holds is not held twice;
\* it moves to the end.
AddAction(menu, a) == SelectSeq(menu, LAMBDA e : e # a) \o <<a>>

RECURSIVE AddActions(_, _)
AddActions(menu, as) ==
    IF as = <<>> THEN menu ELSE AddActions(AddAction(menu, Head(as)), Tail(as))

\* signal.connect for each of the signals in sigs.
Connect(conn, sigs) ==
    [s \in Signals |-> IF s \in sigs THEN conn[s] + 1 ELSE conn[s]]

\* Tray.__init__: both menus empty, nothing connected.
NewMenus ==
    [main_menu |-> <<>>, sidetone_menu |-> <<>>,
     connections |-> [s \in Signals |-> 0], context_menu |-> FALSE]

\* Tray.set_menu on the menus m for the headset's capabilities.
set_menu(m, capabilities) ==
    LET known == capabilities # None
        l == known /\ Contains(capabilities, <<"l">>)
        b == known /\ Contains(capabilities, <<"b">>)
        s == known /\ Contains(capabilities, <<"s">>)
        main1 == IF l THEN AddActions(m.main_menu, <<"light_on", "light_off">>)
                 ELSE m.main_menu
        main2 == IF b THEN AddActions(main1, <<"refresh", "battery">>)
                 ELSE main1
        main3 == IF s THEN AddAction(main2, "sidetone_menu") ELSE main2
        side == IF s
                THEN AddActions(m.sidetone_menu,
                                <<"sidetone_max", "sidetone_high",
                                  "sidetone_med", "sidetone_low",
                                  "sidetone_off">>)
                ELSE m.sidetone_menu
        sigs == (IF l THEN {"light_on", "light_off"} ELSE {})
                \cup (IF b THEN {"refresh"} ELSE {})
                \cup (IF s THEN {"sidetone_off", "sidetone_low", "sidetone_med",
                                 "sidetone_high", "sidetone_max"} ELSE {})
                \cup {"quit"}
    IN  [main_menu |-> AddAction(main3, "quit"),
         sidetone_menu |-> side,
         connections |-> Connect(m.connections, sigs),
         context_menu |-> TRUE]

\* check_status without the set_menu call after a successful probe.
check_status_no_rebuild(h, rc, rb) ==
    LET probe == h.capabilities = None
        c1 == run_command(h, CapabilitiesArgs, rc)
        h1 == IF probe THEN c1.h ELSE h
        raised1 == probe /\ c1.raised
        c2 == run_command(h1, BatteryArgs, rb)
    IN  [h |-> IF raised1 THEN h1 ELSE c2.h,
         calls |-> (IF probe THEN <<c1>> ELSE <<>>)
                   \o (IF raised1 THEN <<>> ELSE <<c2>>),
         rebuilt |-> FALSE,
         steps |-> (IF probe THEN <<"--capabilities">> ELSE <<>>)
                   \o (IF raised1 THEN <<>> ELSE <<"-b">>),
         raised |-> raised1 \/ c2.raised]

\* check_status with the capability query issued in every cycle.
check_status_always_probing(h, rc, rb) ==
    LET c1 == run_command(h, CapabilitiesArgs, rc)
        h1 == c1.h
        raised1 == c1.raised
        c2 == run_command(h1, BatteryArgs, rb)
    IN  [h |-> IF raised1 THEN h1 ELSE c2.h,
         calls |-> <<c1>> \o (IF raised1 THEN <<>> ELSE <<c2>>),
         rebuilt |-> ~raised1 /\ h1.capabilities # None,
         steps |-> <<"--capabilities">>
                   \o (IF ~raised1 /\ h1.capabilities # None
                       THEN <<"set_menu">> ELSE <<>>)
                   \o (IF raised1 THEN <<>> ELSE <<"-b">>),
         raised |-> raised1 \/ c2.raised]

\* Application.check_status on headset state h: the capability query when the
\* capabilities are unset (with the menu rebuilt when it set them), then the
\* battery query.  rc and rb are the outcomes of the two subprocesses.
check_status(h, rc, rb) ==
    LET probe == h.capabilities = None
        c1 == run_command(h, CapabilitiesArgs, rc)
        h1 == IF probe THEN c1.h ELSE h
        raised1 == probe /\ c1.raised
        c2 == run_command(h1, BatteryArgs, rb)
    IN  [h |-> IF raised1 THEN h1 ELSE c2.h,
         calls |-> (IF probe THEN <<c1>> ELSE <<>>)
                   \o (IF raised1 THEN <<>> ELSE <<c2>>),
         rebuilt |-> probe /\ ~raised1 /\ h1.capabilities # None,
         steps |-> (IF probe THEN <<"--capabilities">> ELSE <<>>)
                   \o (IF probe /\ ~raised1 /\ h1.capabilities # None
                       THEN <<"set_menu">> ELSE <<>>)
                   \o (IF raised1 THEN <<>> ELSE <<"-b">>),
         raised |-> raised1 \/ c2.raised]

\* ------------------------------------------------------------ environment

\* An environment variable that is not set (os.getenv gives None).
Unset == "<unset>"

\* f"{value}" of what os.getenv returned.
FormatEnv(v) == IF v = Unset THEN "None" ELSE v

\* The process environments of the model: whether the desktop offers a system
\* tray, and the two environment variables.
Environments ==
    [tray_available : BOOLEAN,
     XDG_CACHE_HOME : {Unset, "/cache"},
     HOME : {Unset, "/home/u"}]

\* The capability letters the program knows, in the order the external
\* binary lists them.
CapLetters == <<"s", "b", "l">>

RECURSIVE SubSeqs(_)
SubSeqs(s) ==
    IF s = <<>> THEN {<<>>}
    ELSE LET rest == SubSeqs(Tail(s))
         IN  rest \cup {<<Head(s)>> \o t : t \in rest}

\* The capability strings the external binary reports in the model: every
\* selection of the letters, the empty one included.
CapStrings == {s \in SubSeqs(CapLetters) : Len(s) <= MaxCapLen}

\* The battery percentages it reports: both sides of each band edge of the
\* icon colours, and one beyond 100.
ChargeSamples == {20, 21, 40, 41, 80, 81, MaxReported}

\* The battery outputs that are one of the documented tokens.
TokenTexts ==
    {<<"-", "2">>, <<"-", "1">>} \cup {IntToStr(n) : n \in ChargeSamples}

\* Battery outputs outside the documented tokens: not a number, and a token
\* followed by a line break.
OtherTexts == {<<"x">>, <<"-", "2", "\n">>}

InvalidUtf8 == <<255>>

Failures == {LaunchError, Exited(1, <<>>)}

CapResults ==
    Failures
    \cup {Exited(1, Encode(<<"s", "b", "l">>)), Exited(0, InvalidUtf8)}
    \cup {Exited(0, Encode(s)) : s \in CapStrings}

TokenResults ==
    {LaunchError, Exited(1, Encode(<<"8", "1">>))}
    \cup {Exited(0, Encode(t)) : t \in TokenTexts}

BatteryResults ==
    TokenResults
    \cup {Exited(0, InvalidUtf8)}
    \cup {Exited(0, Encode(t)) : t \in OtherTexts}

\* Outcomes of the commands whose output is not read (light, sidetone).
PlainResults == Failures \cup {Exited(0, <<>>)}

\* ------------------------------------------------------------------ state

VARIABLES
    environ,      \* the process environment, fixed for the run
    pc,           \* where the process is: a statement of Application.__init__,
                  \* "exec" (the event loop) or "terminated"
    exit_code,    \* the exit code once terminated, -1 before
    headset,      \* Headset: capabilities, connected, charge
    menus,        \* Tray: main_menu, sidetone_menu, signal connections
    battery,      \* text of the Tray.battery action
    icon,         \* Application.icon
    tray_icon,    \* the icon the tray shows (setIcon)
    visible,      \* the tray's visibility (setVisible)
    image_path,   \* Application.image_path
    timer_active, \* the QTimer is started
    calls,        \* the run_command calls of the latest handler, in order,
                  \* each with the headset state it left
    steps,        \* the operations of the latest handler, in order
    uncaught,     \* an exception left the latest handler
    rebuilds      \* how often check_status has called set_menu

vars ==
    <<environ, pc, exit_code, headset, menus, battery, icon, tray_icon,
      visible, image_path, timer_active, calls, steps, uncaught, rebuilds>>

ui == <<menus, battery, icon, tray_icon, visible>>

\* The state when main() calls Application(): nothing constructed yet.
Init ==
    /\ environ \in Environments
    /\ pc = "Headset"
    /\ exit_code = 0 - 1
    /\ headset = NewHeadset
    /\ menus = NewMenus
    /\ battery = <<>>
    /\ icon = NoIcon
    /\ tray_icon = NoIcon
    /\ visible = FALSE
    /\ image_path = Unset
    /\ timer_active = FALSE
    /\ calls = <<>>
    /\ steps = <<>>
    /\ uncaught = FALSE
    /\ rebuilds = 0

\* ---------------------------------------------------------------- start-up

\* An exception that leaves Application.__init__ leaves main(): the
\* interpreter prints the traceback and exits with code 1.  exit(1) ends the
\* process with code 1 as well.
Terminate(code) == pc' = "terminated" /\ exit_code' = code

\* Line 41, Headset(): the capability probe, and the battery probe when the
\* headset is connected.  batteryResults are the outcomes a battery query can
\* have.
ConstructHeadset(batteryResults) ==
    /\ pc = "Headset"
    /\ \E rc \in CapResults :
       \E c1 \in {run_command(NewHeadset, CapabilitiesArgs, rc)} :
         LET second == ~c1.raised /\ c1.h.connected
         IN  \E rb \in IF second THEN batteryResults ELSE {NoResult} :
             \E c2 \in {run_command(c1.h, BatteryArgs, rb)} :
               LET raised == c1.raised \/ (second /\ c2.raised)
               IN  /\ headset' = IF second THEN c2.h ELSE c1.h
                   /\ calls' = IF second THEN <<c1, c2>> ELSE <<c1>>
                   /\ steps' = IF second THEN <<"--capabilities", "-b">>
                               ELSE <<"--capabilities">>
                   /\ uncaught' = raised
                   /\ IF raised THEN Terminate(1)
                      ELSE pc' = "Tray" /\ UNCHANGED exit_code
    /\ UNCHANGED <<environ, ui, image_path, timer_active, rebuilds>>

\* What "self.tray.isSystemTrayAvailable" evaluates to in the condition of
\* line 43: the attribute is read, not called, and the method object it yields
\* is true whether or not the desktop has a system tray.
IsSystemTrayAvailableAttribute(env) == TRUE

\* Lines 42-48: Tray(headset), the tray check, set_menu, icon = None.
ConstructTray ==
    /\ pc = "Tray"
    /\ battery' = charge_status(headset)
    /\ calls' = <<>>
    /\ uncaught' = FALSE
    /\ icon' = NoIcon
    /\ IF ~IsSystemTrayAvailableAttribute(environ)
       THEN /\ Terminate(1)
            /\ menus' = NewMenus
            /\ steps' = <<>>
       ELSE /\ pc' = "ImagePath"
            /\ menus' = set_menu(NewMenus, headset.capabilities)
            /\ steps' = <<"set_menu">>
            /\ UNCHANGED exit_code
    /\ UNCHANGED <<environ, headset, tray_icon, visible, image_path,
                   timer_active, rebuilds>>

\* Lines 50-59: the directory the icon file is written to.
ImagePath(env) ==
    IF env.XDG_CACHE_HOME = Unset
    THEN FormatEnv(env.HOME) \o "/."
    ELSE env.XDG_CACHE_HOME \o "/"

ResolveImagePath ==
    /\ pc = "ImagePath"
    /\ image_path' = ImagePath(environ)
    /\ IF environ.XDG_CACHE_HOME = Unset /\ ImagePath(environ) = "None/."
       THEN Terminate(1)
       ELSE pc' = "Update" /\ UNCHANGED exit_code
    /\ calls' = <<>>
    /\ steps' = <<>>
    /\ uncaught' = FALSE
    /\ UNCHANGED <<environ, headset, ui, timer_active, rebuilds>>

\* The outcomes the capability query of check_status can have: none when
\* check_status does not issue it.
ProbeResults ==
    IF headset.capabilities = None THEN CapResults ELSE {NoResult}

\* Application.tray_update as a step from the current state: check_status,
\* then create_icon, battery.setText, setIcon, setVisible.  An exception in
\* check_status skips the rest.
tray_update(batteryResults) ==
    \E rc \in ProbeResults, rb \in batteryResults :
      \E cs \in {check_status(headset, rc, rb)} :
          /\ headset' = cs.h
          /\ calls' = cs.calls
          /\ uncaught' = cs.raised
          /\ menus' = IF cs.rebuilt THEN set_menu(menus, cs.h.capabilities)
                      ELSE menus
          /\ rebuilds' = IF cs.rebuilt THEN rebuilds + 1 ELSE rebuilds
          /\ IF cs.raised
             THEN /\ steps' = cs.steps
                  /\ UNCHANGED <<battery, icon, tray_icon, visible>>
             ELSE /\ steps' = cs.steps \o <<"create_icon", "setText",
                                           "setIcon", "setVisible">>
                  /\ icon' = create_icon(cs.h)
                  /\ battery' = charge_status(cs.h)
                  /\ tray_icon' = create_icon(cs.h)
                  /\ visible' = TRUE

\* Lines 62-63: setup() and the first tray_update().
FirstUpdate(batteryResults) ==
    /\ pc = "Update"
    /\ tray_update(batteryResults)
    /\ IF uncaught' THEN Terminate(1) ELSE pc' = "Timer" /\ UNCHANGED exit_code
    /\ UNCHANGED <<environ, image_path, timer_active>>

\* Lines 65-68 and 343: the timer is started and main() enters app.exec().
StartTimer ==
    /\ pc = "Timer"
    /\ timer_active' = TRUE
    /\ pc' = "exec"
    /\ calls' = <<>>
    /\ steps' = <<>>
    /\ uncaught' = FALSE
    /\ UNCHANGED <<environ, exit_code, headset, ui, image_path, rebuilds>>

\* --------------------------------------------------------------- callbacks
\* The event loop runs one callback at a time.  An exception that leaves a
\* slot is printed by the binding and the event loop goes on.

\* The timer's timeout signal: tray_update.
TimerTick(batteryResults) ==
    /\ pc = "exec"
    /\ timer_active
    /\ tray_update(batteryResults)
    /\ UNCHANGED <<environ, pc, exit_code, image_path, timer_active>>

\* The user can trigger an action that the shown context menu holds and whose
\* triggered signal is connected.
Clickable(entry) ==
    /\ pc = "exec"
    /\ visible
    /\ menus.context_menu
    /\ menus.connections[entry] > 0
    /\ \/ \E i \in 1..Len(menus.main_menu) : menus.main_menu[i] = entry
       \/ /\ \E i \in 1..Len(menus.main_menu) :
                 menus.main_menu[i] = "sidetone_menu"
          /\ \E i \in 1..Len(menus.sidetone_menu) :
                 menus.sidetone_menu[i] = entry

\* "Refresh battery state": tray_update.
ClickRefresh(batteryResults) ==
    /\ Clickable("refresh")
    /\ tray_update(batteryResults)
    /\ UNCHANGED <<environ, pc, exit_code, image_path, timer_active>>

\* A slot that is one run_command call.
Command(args) ==
    /\ \E r \in PlainResults :
       \E c \in {run_command(headset, args, r)} :
             /\ headset' = c.h
             /\ calls' = <<c>>
             /\ steps' = <<"-" \o args[1][2]>>
             /\ uncaught' = c.raised
    /\ UNCHANGED <<environ, pc, exit_code, ui, image_path, timer_active,
                   rebuilds>>

turn_ligt_on ==
    /\ Clickable("light_on")
    /\ Command(LightArgs(<<"1">>))

turn_light_off ==
    /\ Clickable("light_off")
    /\ Command(LightArgs(<<"0">>))

sidetone_off ==
    /\ Clickable("sidetone_off")
    /\ Command(SidetoneArgs(<<"0">>))

sidetone_low ==
    /\ Clickable("sidetone_low")
    /\ Command(SidetoneArgs(<<"3", "2">>))

sidetone_med ==
    /\ Clickable("sidetone_med")
    /\ Command(SidetoneArgs(<<"6", "4">>))

sidetone_high ==
    /\ Clickable("sidetone_high")
    /\ Command(SidetoneArgs(<<"9", "6">>))

sidetone_max ==
    /\ Clickable("sidetone_max")
    /\ Command(SidetoneArgs(<<"1", "2", "8">>))

\* "Quit": app.quit ends app.exec(), main() returns.
ClickQuit ==
    /\ Clickable("quit")
    /\ Terminate(0)
    /\ calls' = <<>>
    /\ steps' = <<>>
    /\ uncaught' = FALSE
    /\ UNCHANGED <<environ, headset, ui, image_path, timer_active, rebuilds>>

\* The steps of the program, the battery outcomes drawn from batteryResults.
Step(batteryResults) ==
    \/ ConstructHeadset(batteryResults)
    \/ ConstructTray
    \/ ResolveImagePath
    \/ FirstUpdate(batteryResults)
    \/ StartTimer
    \/ TimerTick(batteryResults)
    \/ ClickRefresh(batteryResults)
    \/ turn_ligt_on
    \/ turn_light_off
    \/ sidetone_off
    \/ sidetone_low
    \/ sidetone_med
    \/ sidetone_high
    \/ sidetone_max
    \/ ClickQuit

Next == Step(BatteryResults)

Spec == Init /\ [][Next]_vars

\* The program with an external binary whose battery output is always one of
\* the documented tokens.
NextTokens == Step(TokenResults)

SpecTokens == Init /\ [][NextTokens]_vars

\* ------------------------------------------------------------- properties

\* The headset state a call of the latest handler started from: the state
\* before the step for the first call, the state the previous call left for a
\* later one.
PreOf(i) == IF i = 1 THEN headset ELSE calls'[i - 1].h

\* The capability string is set and holds the letter.
Has(capabilities, letter) ==
    /\ capabilities # None
    /\ \E k \in 1..Len(capabilities) : capabilities[k] = letter

\* A completed refresh cycle is the latest handler.
CycleCompleted == steps # <<>> /\ steps[Len(steps)] = "setVisible"

\* The label for a charge value.
Label(charge) ==
    IF charge = 0 - 2 THEN Disconnected
    ELSE IF charge = 0 - 1 THEN Charging
    ELSE IntToStr(charge) \o <<"%">>

\* A slot other than quit is connected at most once, so that a click runs its
\* slot once.
ConnectedOnce ==
    \A s \in Signals :
        menus.connections[s] <= IF s = "quit" THEN 2 ELSE 1

\* C1: the binary is invoked for a command only if the capabilities are unset
\* and the command is the capability query, or they are set and the command's
\* first argument without "-" occurs in them; in every other case the call
\* invokes nothing and leaves capabilities, connected and charge as they were.
C1_CapabilityGate ==
    [][\A i \in 1..Len(calls') :
         LET c == calls'[i]
             pre == PreOf(i)
             allowed ==
                 \/ pre.capabilities = None /\ c.args[1] = CapabilitiesArgs[1]
                 \/ /\ pre.capabilities # None
                    /\ Contains(pre.capabilities,
                                SelectSeq(c.args[1], LAMBDA x : x # "-"))
         IN  /\ c.invoked => allowed
             /\ ~allowed => ~c.invoked /\ ~c.raised /\ c.h = pre]_vars

\* A battery query was rejected while the capabilities were known.
C1_Witness ==
    /\ pc = "exec"
    /\ headset.capabilities # None
    /\ ~Has(headset.capabilities, "b")
    /\ \E i \in 1..Len(calls) :
           calls[i].args = BatteryArgs /\ ~calls[i].invoked

\* The integers whose decimal texts the battery outputs of the model spell.
ReportedValues == ChargeSamples \cup {0 - 2, 0 - 1}

\* C2: a battery query that passes the gate and exits with code 0 and output
\* v: "-2" clears connected and keeps charge; "-1" gives (charge, connected) =
\* (-1, true); any other integer string gives (int(v), true), values outside
\* 0..100 included; capabilities stay as they were.
C2_BatteryParsing ==
    [][\A i \in 1..Len(calls') :
         LET c == calls'[i]
             pre == PreOf(i)
             v == Decode(c.res.stdout)
         IN  (/\ c.args = BatteryArgs
              /\ c.invoked
              /\ c.res.kind = "exit"
              /\ c.res.returncode = 0
              /\ Decodable(c.res.stdout))
             => /\ v = <<"-", "2">>
                   => ~c.raised /\ c.h = [pre EXCEPT !.connected = FALSE]
                /\ v = <<"-", "1">>
                   => /\ ~c.raised
                      /\ c.h = [pre EXCEPT !.charge = 0 - 1,
                                           !.connected = TRUE]
                /\ \A n \in ReportedValues :
                     (\/ v = IntToStr(n) /\ n \notin {0 - 2, 0 - 1}
                      \/ v = IntToStr(n) \o <<"\n">>)
                     => /\ ~c.raised
                        /\ c.h = [pre EXCEPT !.charge = n,
                                             !.connected = TRUE]]_vars

\* A percentage beyond 100 was read and stored as it is.
C2_Witness ==
    /\ headset.connected
    /\ headset.charge = MaxReported
    /\ calls # <<>>
    /\ calls[Len(calls)].args = BatteryArgs
    /\ calls[Len(calls)].res.stdout = Encode(IntToStr(MaxReported))

\* C3: no failure of an invocation leaves run_command as an exception: none
\* of the calls of a handler raised, and no handler was left by an exception.
C3_NoUncaughtException ==
    /\ ~uncaught
    /\ \A i \in 1..Len(calls) : ~calls[i].raised

\* C4: a command that passes the gate and whose process exits with a non-zero
\* code clears connected, reads no output and keeps charge and capabilities.
C4_NonZeroExit ==
    [][\A i \in 1..Len(calls') :
         LET c == calls'[i]
             pre == PreOf(i)
         IN  (c.invoked /\ c.res.kind = "exit" /\ c.res.returncode # 0)
             => /\ ~c.raised
                /\ c.h = [pre EXCEPT !.connected = FALSE]]_vars

\* A capability probe that printed a capability string and exited with a
\* non-zero code left the capabilities unset.
C4_Witness ==
    /\ pc = "exec"
    /\ headset.capabilities = None
    /\ calls # <<>>
    /\ calls[1].args = CapabilitiesArgs
    /\ calls[1].invoked
    /\ calls[1].res.returncode # 0
    /\ calls[1].res.stdout # <<>>

\* C5: start-up ends with exit code 1 whenever the desktop has no system tray
\* and whenever neither XDG_CACHE_HOME nor HOME is set; the process gets past
\* each check, and into the event loop, only otherwise.
C5_FatalStartupErrors ==
    /\ pc \in {"ImagePath", "Update", "Timer", "exec"}
       => environ.tray_available
    /\ pc \in {"Update", "Timer", "exec"}
       => environ.XDG_CACHE_HOME # Unset \/ environ.HOME # Unset
    /\ pc = "terminated" /\ ~timer_active => exit_code = 1

\* C6: after start-up and after every refresh cycle the context menu holds
\* light on/off iff the capabilities are set and contain "l", refresh and the
\* battery label iff they contain "b", the sidetone submenu with its five
\* levels iff they contain "s", and quit always; with the capabilities unset
\* it holds quit alone.
C6_MenuMatchesCapabilities ==
    pc \in {"Timer", "exec"} =>
        LET caps == headset.capabilities
            main == {menus.main_menu[i] : i \in 1..Len(menus.main_menu)}
            side == {menus.sidetone_menu[i] :
                        i \in 1..Len(menus.sidetone_menu)}
        IN  /\ menus.context_menu
            /\ Cardinality(main) = Len(menus.main_menu)
            /\ "light_on" \in main <=> Has(caps, "l")
            /\ "light_off" \in main <=> Has(caps, "l")
            /\ "refresh" \in main <=> Has(caps, "b")
            /\ "battery" \in main <=> Has(caps, "b")
            /\ "sidetone_menu" \in main <=> Has(caps, "s")
            /\ Has(caps, "s")
               => /\ side = {"sidetone_off", "sidetone_low", "sidetone_med",
                             "sidetone_high", "sidetone_max"}
                  /\ Len(menus.sidetone_menu) = 5
            /\ "quit" \in main
            /\ main \subseteq {"light_on", "light_off", "refresh", "battery",
                               "sidetone_menu", "quit"}
            /\ caps = None => menus.main_menu = <<"quit">>

\* A refresh cycle learned the capabilities "sbl" and rebuilt the menu.
C6_Witness ==
    /\ pc = "exec"
    /\ rebuilds = 1
    /\ headset.capabilities = <<"s", "b", "l">>
    /\ Len(menus.main_menu) = 6

\* C7: with battery outputs that are "-2", "-1" or a non-negative integer,
\* charge is never -2 and the battery label, which is "Charging" for -1 and
\* "<charge>%" otherwise, never reads "Disconnected", also while connected is
\* false.
C7_LabelNeverDisconnected ==
    /\ headset.charge # 0 - 2
    /\ battery # Disconnected
    /\ battery # <<>>
       => battery = IF headset.charge = 0 - 1 THEN Charging
                    ELSE IntToStr(headset.charge) \o <<"%">>

\* The binary answered "-2" to a headset that had reported 81: the headset is
\* disconnected and the label still reads "81%".
C7_Witness ==
    /\ ~headset.connected
    /\ headset.charge = 81
    /\ battery = <<"8", "1", "%">>
    /\ calls # <<>>
    /\ calls[Len(calls)].invoked
    /\ calls[Len(calls)].res = Exited(0, <<45, 50>>)

\* C8: a refresh cycle performs the capability query (only when the
\* capabilities are unset), the battery query, the icon generation and then
\* the label and icon update, in this order; when it completes the label is
\* charge_status() of the state and the icon is the disconnected glyph if
\* connected is false, else the plug if charge = -1, else the battery in green
\* above 80, yellow-green above 40, orange above 20 and red otherwise.
C8_RefreshCycle ==
    [][(steps' # <<>> /\ steps'[Len(steps')] = "setVisible") =>
         LET h == headset'
             shown == tray_icon'
         IN  /\ SelectSeq(steps', LAMBDA x : x # "set_menu")
                = (IF headset.capabilities = None
                   THEN <<"--capabilities">> ELSE <<>>)
                  \o <<"-b", "create_icon", "setText", "setIcon",
                       "setVisible">>
             /\ battery' = Label(h.charge)
             /\ icon' = shown
             /\ visible'
             /\ ~h.connected => shown.glyph = GlyphDisconnected
             /\ h.connected /\ h.charge = 0 - 1 => shown.glyph = GlyphPlug
             /\ h.connected /\ h.charge # 0 - 1
                => /\ shown.glyph = GlyphBattery
                   /\ shown.color =
                        IF h.charge > 80 THEN <<0, 255, 0, 255>>
                        ELSE IF h.charge > 40 THEN <<234, 255, 0, 255>>
                        ELSE IF h.charge > 20 THEN <<255, 90, 0, 255>>
                        ELSE <<255, 0, 0, 255>>
                   /\ h.charge = 81 => shown.color = <<0, 255, 0, 255>>
                   /\ h.charge \in {80, 41}
                      => shown.color = <<234, 255, 0, 255>>
                   /\ h.charge \in {40, 21}
                      => shown.color = <<255, 90, 0, 255>>
                   /\ h.charge = 20 => shown.color = <<255, 0, 0, 255>>]_vars

\* A cycle completed on a connected headset at 80: the battery is yellow-green.
C8_Witness ==
    /\ CycleCompleted
    /\ headset.connected
    /\ headset.charge = 80
    /\ tray_icon.glyph = GlyphBattery
    /\ tray_icon.color = <<234, 255, 0, 255>>
    /\ battery = <<"8", "0", "%">>

\* C9: connected implies that the capabilities are set and contain "b"; the
\* Headset constructor issues the capability probe alone, and a headset whose
\* capabilities lack "b" gets the disconnected icon in every refresh cycle.
C9_ConnectedNeedsBattery ==
    /\ headset.connected => Has(headset.capabilities, "b")
    /\ pc = "Tray" => steps = <<"--capabilities">> /\ ~headset.connected
    /\ CycleCompleted /\ ~Has(headset.capabilities, "b")
       => tray_icon.glyph = GlyphDisconnected

\* A battery read marked the headset connected.
C9_Witness ==
    /\ pc = "exec"
    /\ headset.connected
    /\ calls # <<>>
    /\ calls[Len(calls)].args = BatteryArgs
    /\ calls[Len(calls)].invoked

\* C10: once set, the capabilities never change and no capability query is
\* invoked again; the refresh cycle rebuilds the menu at most once; with an
\* empty capability string every later command is rejected.
C10_CapabilitiesWriteOnce ==
    [][/\ headset.capabilities # None
          => /\ headset'.capabilities = headset.capabilities
             /\ rebuilds' = rebuilds
             /\ \A i \in 1..Len(calls') :
                    calls'[i].args = CapabilitiesArgs => ~calls'[i].invoked
       /\ rebuilds' <= 1
       /\ headset.capabilities = <<>>
          => /\ headset' = headset
             /\ \A i \in 1..Len(calls') : ~calls'[i].invoked]_vars

\* With the empty capability string learned by a refresh cycle, a later
\* battery query was rejected.
C10_Witness ==
    /\ pc = "exec"
    /\ headset.capabilities = <<>>
    /\ rebuilds = 1
    /\ steps = <<"-b", "create_icon", "setText", "setIcon", "setVisible">>
    /\ ~calls[1].invoked

=============================================================================
